---- MODULE Spec2Model ----
(***************************************************************************)
(* Verification model of the nitox transport layer:                        *)
(*   - the frame codec              (src/src/codec.rs)                     *)
(*   - the transport variant and its plaintext-to-TLS upgrade              *)
(*                                  (src/src/net/connection_inner.rs)      *)
(*   - the resilient connection     (src/src/net/connection.rs, mod.rs)    *)
(* Three specifications share the module: SpecCodec drives OpCodec::decode *)
(* over every small buffer, SpecInner drives connect_and_upgrade_if_       *)
(* required and the framed transport it returns, SpecConn/FairSpecConn     *)
(* interleave public operations of NatsConnection with reconnection tasks. *)
(***************************************************************************)
EXTENDS Integers, Sequences, FiniteSets, TLC

(* ------------------------------ bounds --------------------------------- *)
MaxLen == 3          \* longest receive buffer explored by SpecCodec
MaxFrames == 2       \* frames the server sends on one socket (SpecInner)
MaxYield == 3        \* receive calls that return a frame (SpecInner)
MaxSend == 2         \* frames accepted by send (SpecInner)
MaxFirstOp == 2      \* calls of the first_op accessor (SpecInner)
MaxTasks == 2        \* reconnection tasks ever spawned
MaxQueue == 1        \* frames queued on one transport

(* ------------------------------ bytes ---------------------------------- *)
SP == " "
TAB == "\t"
Bytes == {"P", "I", "X", SP, TAB}

\* codec.rs:38  |b| *b == b' ' || *b == b'\t'
IsDelimiter(b) == b = SP \/ b = TAB

VARIABLES
  buf,          \* the BytesMut handed to decode
  next_index,   \* OpCodec.next_index
  hist          \* records of the decode calls made since the last append

VARIABLES
  host,         \* TRUE when a hostname was supplied (TLS requested)
  incoming,     \* the frames the server sends, in order
  wire,         \* their bytes still in flight towards the client
  avail,        \* bytes the socket holds ready for the next read
  cpc,          \* position of the connect_and_upgrade_if_required future
  inner,        \* the NatsConnectionInner the future owns / has returned
  captured,     \* (op, inner) handed to the closure of line 60
  old_parts,    \* (read_buf, write_buf) taken by into_parts, line 64-65
  sock_out,     \* bytes written to the socket
  accepted,     \* frames accepted by start_send, in order
  yielded,      \* frames returned by poll, in order
  first_reads   \* values returned by the calls of first_op

codecVars == <<buf, next_index, hist>>
VARIABLES
  state,        \* NatsConnection.state: the NatsConnectionState in the cell
  state_lock,   \* who holds the write guard of state
  slot,         \* NatsConnection.inner: the transport in the cell
  slot_lock,    \* who holds the write guard of inner
  oper,         \* the public operations in progress, one per caller
  task          \* the spawned reconnection futures

innerVars == <<host, incoming, wire, avail, cpc, inner, captured, old_parts,
               sock_out, accepted, yielded, first_reads>>
connVars == <<state, state_lock, slot, slot_lock, oper, task>>

(* --------------------- external frame parser --------------------------- *)
\* The verbs the parser knows.  A span that is a proper prefix of a verb is
\* "incomplete"; any other span is malformed.
Verbs == {<<"I">>, <<"P", "I">>}

IsPrefix(s, t) == Len(s) <= Len(t) /\ SubSeq(t, 1, Len(s)) = s

\* protocol::Op::from_bytes: Ok(op) | Err(IncompleteCommandError) | Err(e)
from_bytes(span) ==
  IF span \in Verbs THEN [kind |-> "Ok", op |-> span]
  ELSE IF \E v \in Verbs : IsPrefix(span, v) THEN [kind |-> "Incomplete", op |-> <<>>]
  ELSE [kind |-> "Malformed", op |-> <<>>]

(* ------------------------------ codec ---------------------------------- *)
\* The 0-based offsets k of buf[from..] that hold a delimiter.
DelimiterOffsets(b, from) ==
  {k \in 0..(Len(b) - from - 1) : IsDelimiter(b[from + k + 1])}

Min(S) == CHOOSE x \in S : \A y \in S : x <= y

\* A scan that forgets the cursor and starts at the head of the buffer.
position_rescan(b, from) ==
  IF DelimiterOffsets(b, 0) = {} THEN -1 ELSE Min(DelimiterOffsets(b, 0))

\* buf[self.next_index..].iter().position(..): -1 stands for None
position(b, from) ==
  IF DelimiterOffsets(b, from) = {} THEN -1 ELSE Min(DelimiterOffsets(b, from))

\* &buf[..command_offset]
VerbSpan(b, from, command_offset) == SubSeq(b, 1, command_offset)

\* The 1-based indices of buf the scan of buf[next_index..] looks at.
Scanned(b, from) ==
  IF position(b, from) = -1 THEN (from + 1)..Len(b)
  ELSE (from + 1)..(from + position(b, from) + 1)

NoFrame == [kind |-> "None", op |-> <<>>]

\* decode that reports no-frame-yet without recording how far it scanned.
decode_none_keeps_cursor(idx, b) ==
  LET command_offset == position(b, idx) IN
  IF command_offset # -1
  THEN LET span == VerbSpan(b, idx, command_offset)
           r == from_bytes(span) IN
       CASE r.kind = "Ok" ->
              [next_index |-> idx, result |-> [kind |-> "Frame", op |-> r.op],
               parsed |-> TRUE, span |-> span, scanned |-> Scanned(b, idx)]
         [] r.kind = "Incomplete" ->
              [next_index |-> idx, result |-> NoFrame,
               parsed |-> TRUE, span |-> span, scanned |-> Scanned(b, idx)]
         [] OTHER ->
              [next_index |-> 0, result |-> [kind |-> "Err", op |-> <<>>],
               parsed |-> TRUE, span |-> span, scanned |-> Scanned(b, idx)]
  ELSE [next_index |-> idx, result |-> NoFrame,
        parsed |-> FALSE, span |-> <<>>, scanned |-> Scanned(b, idx)]

\* decode whose error arm leaves the cursor where it was.
decode_error_keeps_cursor(idx, b) ==
  LET command_offset == position(b, idx) IN
  IF command_offset # -1
  THEN LET span == VerbSpan(b, idx, command_offset)
           r == from_bytes(span) IN
       CASE r.kind = "Ok" ->
              [next_index |-> idx, result |-> [kind |-> "Frame", op |-> r.op],
               parsed |-> TRUE, span |-> span, scanned |-> Scanned(b, idx)]
         [] r.kind = "Incomplete" ->
              [next_index |-> Len(b), result |-> NoFrame,
               parsed |-> TRUE, span |-> span, scanned |-> Scanned(b, idx)]
         [] OTHER ->
              [next_index |-> idx, result |-> [kind |-> "Err", op |-> <<>>],
               parsed |-> TRUE, span |-> span, scanned |-> Scanned(b, idx)]
  ELSE [next_index |-> Len(b), result |-> NoFrame,
        parsed |-> FALSE, span |-> <<>>, scanned |-> Scanned(b, idx)]

\* OpCodec::decode.  Returns the new next_index, the result, whether the
\* parser was called and with which span, and the indices scanned.
decode(idx, b) ==
  LET command_offset == position(b, idx) IN
  IF command_offset # -1
  THEN LET span == VerbSpan(b, idx, command_offset)
           r == from_bytes(span) IN
       CASE r.kind = "Ok" ->
              [next_index |-> idx, result |-> [kind |-> "Frame", op |-> r.op],
               parsed |-> TRUE, span |-> span, scanned |-> Scanned(b, idx)]
         [] r.kind = "Incomplete" ->
              [next_index |-> Len(b), result |-> NoFrame,
               parsed |-> TRUE, span |-> span, scanned |-> Scanned(b, idx)]
         [] OTHER ->
              [next_index |-> 0, result |-> [kind |-> "Err", op |-> <<>>],
               parsed |-> TRUE, span |-> span, scanned |-> Scanned(b, idx)]
  ELSE [next_index |-> Len(b), result |-> NoFrame,
        parsed |-> FALSE, span |-> <<>>, scanned |-> Scanned(b, idx)]

\* The caller (the framed stream) appends the bytes of one socket read.
Feed(b) ==
  /\ Len(buf) < MaxLen
  /\ buf' = Append(buf, b)
  /\ hist' = <<>>
  /\ UNCHANGED next_index
  /\ UNCHANGED <<innerVars, connVars>>

\* One call of decode on the current buffer.
Decode ==
  /\ Len(hist) < 2
  /\ LET d == decode(next_index, buf) IN
       /\ next_index' = d.next_index
       /\ hist' = Append(hist, [pre |-> next_index, post |-> d.next_index,
                                result |-> d.result, parsed |-> d.parsed,
                                span |-> d.span, scanned |-> d.scanned])
  /\ UNCHANGED buf
  /\ UNCHANGED <<innerVars, connVars>>

NextCodec ==
  \/ \E b \in Bytes : Feed(b)
  \/ Decode

(* ----------------------- transport variant ----------------------------- *)
\* Option<Op>
None == [some |-> FALSE, op |-> <<>>]
Some(op) == [some |-> TRUE, op |-> op]

\* Op::into_bytes: the verb followed by the delimiter that ends it.
into_bytes(op) == op \o <<SP>>

RECURSIVE Flatten(_)
Flatten(frames) ==
  IF frames = <<>> THEN <<>> ELSE into_bytes(Head(frames)) \o Flatten(Tail(frames))

\* No transport: the value has been moved out or dropped.
NoInner ==
  [kind |-> "None", read_buf |-> <<>>, write_buf |-> <<>>, next_index |-> 0,
   is_readable |-> FALSE, first_op |-> None]

\* impl From<TcpStream>: NatsConnectionInner::Tcp(OpCodec::default().framed(socket))
FromSocket ==
  [kind |-> "Tcp", read_buf |-> <<>>, write_buf |-> <<>>, next_index |-> 0,
   is_readable |-> FALSE, first_op |-> None]

\* framed.into_parts(): (old_parts.read_buf, old_parts.write_buf)
into_parts(framed) == [read_buf |-> framed.read_buf, write_buf |-> framed.write_buf]

\* An upgrade that starts the encrypted stream with empty buffers.
TlsFromParts_fresh(parts, op) ==
  [kind |-> "Tls", read_buf |-> <<>>, write_buf |-> <<>>,
   next_index |-> 0, is_readable |-> FALSE, first_op |-> op]

\* Lines 68-71: FramedParts::new(socket, OpCodec::default()) re-seeded with
\* the old buffers, wrapped as Tls((Framed::from_parts(new_parts), op)).
TlsFromParts(parts, op) ==
  [kind |-> "Tls", read_buf |-> parts.read_buf, write_buf |-> parts.write_buf,
   next_index |-> 0, is_readable |-> Len(parts.read_buf) > 0, first_op |-> op]

\* NatsConnectionInner::first_op
first_op(self) == IF self.kind = "Tls" THEN self.first_op ELSE None

\* OpCodec::encode: dst.put(item.into_bytes()?)
encode(item, dst) == dst \o into_bytes(item)

NotReady == [kind |-> "NotReady", op |-> <<>>]

\* NatsConnectionInner::poll -> framed.poll(): the framed stream decodes what
\* it has buffered and, when that gives no frame, reads what the socket
\* holds and decodes again.
RECURSIVE FramedPoll(_, _)
FramedPoll(fr, av) ==
  IF fr.is_readable
  THEN LET d == decode(fr.next_index, fr.read_buf)
           fr1 == [fr EXCEPT !.next_index = d.next_index] IN
       CASE d.result.kind = "Frame" ->
              [inner |-> fr1, avail |-> av, res |-> [kind |-> "Ready", op |-> d.result.op]]
         [] d.result.kind = "Err" ->
              [inner |-> fr1, avail |-> av, res |-> [kind |-> "Err", op |-> <<>>]]
         [] OTHER -> FramedPoll([fr1 EXCEPT !.is_readable = FALSE], av)
  ELSE IF av = <<>>
       THEN [inner |-> fr, avail |-> av, res |-> NotReady]
       ELSE FramedPoll([fr EXCEPT !.read_buf = @ \o av, !.is_readable = TRUE], <<>>)

SeqsUpTo(S, n) == UNION {[1..k -> S] : k \in 1..n}

\* connect_tcp, then map(NatsConnectionInner::from); without a hostname the
\* plaintext variant is the result (line 79).
\* The caller says whether a hostname is given (h); frames is what the
\* server will send on the new socket.
ConnectTcp(ok, h, frames) ==
  /\ cpc = "init"
  /\ host' = h
  /\ incoming' = frames
  /\ wire' = Flatten(frames)
  /\ IF ok
     THEN /\ inner' = FromSocket
          /\ cpc' = IF h THEN "greeting" ELSE "done"
     ELSE /\ cpc' = "failed"
          /\ UNCHANGED inner
  /\ UNCHANGED <<avail, captured, old_parts, sock_out, accepted, yielded,
                 first_reads>>
  /\ UNCHANGED <<codecVars, connVars>>

\* The network delivers the next n bytes to the socket.
Arrive(n) ==
  /\ cpc \in {"greeting", "handshake", "done"}
  /\ n \in 1..Len(wire)
  /\ avail' = avail \o SubSeq(wire, 1, n)
  /\ wire' = SubSeq(wire, n + 1, Len(wire))
  /\ UNCHANGED <<host, incoming, cpc, inner, captured, old_parts, sock_out,
                 accepted, yielded, first_reads>>
  /\ UNCHANGED <<codecVars, connVars>>

\* One poll of inner.into_future() and of the closure of lines 60-76: when
\* the first frame is there, the framed stream is taken apart.
IntoFuture ==
  /\ cpc = "greeting"
  /\ LET r == FramedPoll(inner, avail) IN
       /\ avail' = r.avail
       /\ CASE r.res.kind = "Ready" ->
                 /\ captured' = [op |-> Some(r.res.op), framed |-> r.inner]
                 /\ old_parts' = into_parts(r.inner)
                 /\ inner' = NoInner
                 /\ cpc' = "handshake"
            [] r.res.kind = "Err" ->
                 /\ inner' = NoInner
                 /\ cpc' = "failed"
                 /\ UNCHANGED <<captured, old_parts>>
            [] OTHER ->
                 /\ inner' = r.inner
                 /\ UNCHANGED <<cpc, captured, old_parts>>
  /\ UNCHANGED <<host, incoming, wire, sock_out, accepted, yielded, first_reads>>
  /\ UNCHANGED <<codecVars, connVars>>

\* upgrade_tcp_to_tls completes; on success the closure of lines 66-72 builds
\* the encrypted variant.
Handshake(ok) ==
  /\ cpc = "handshake"
  /\ IF ok
     THEN /\ inner' = TlsFromParts(old_parts, captured.op)
          /\ cpc' = "done"
     ELSE /\ cpc' = "failed"
          /\ UNCHANGED inner
  /\ UNCHANGED <<host, incoming, wire, avail, captured, old_parts, sock_out,
                 accepted, yielded, first_reads>>
  /\ UNCHANGED <<codecVars, connVars>>

\* NatsConnectionInner::poll on the transport the future returned.
InnerPoll ==
  /\ cpc = "done"
  /\ Len(yielded) < MaxYield
  /\ LET r == FramedPoll(inner, avail) IN
       /\ inner' = r.inner
       /\ avail' = r.avail
       /\ yielded' = IF r.res.kind = "Ready" THEN Append(yielded, r.res.op) ELSE yielded
  /\ UNCHANGED <<host, incoming, wire, cpc, captured, old_parts, sock_out,
                 accepted, first_reads>>
  /\ UNCHANGED <<codecVars, connVars>>

\* NatsConnectionInner::start_send -> framed.start_send(item)
InnerStartSend(item) ==
  /\ cpc = "done"
  /\ Len(accepted) < MaxSend
  /\ inner' = [inner EXCEPT !.write_buf = encode(item, @)]
  /\ accepted' = Append(accepted, item)
  /\ UNCHANGED <<host, incoming, wire, avail, cpc, captured, old_parts,
                 sock_out, yielded, first_reads>>
  /\ UNCHANGED <<codecVars, connVars>>

\* NatsConnectionInner::poll_complete -> framed.poll_complete(): the socket
\* takes the first n queued bytes.
InnerPollComplete(n) ==
  /\ cpc = "done"
  /\ n \in 1..Len(inner.write_buf)
  /\ sock_out' = sock_out \o SubSeq(inner.write_buf, 1, n)
  /\ inner' = [inner EXCEPT !.write_buf = SubSeq(@, n + 1, Len(@))]
  /\ UNCHANGED <<host, incoming, wire, avail, cpc, captured, old_parts,
                 accepted, yielded, first_reads>>
  /\ UNCHANGED <<codecVars, connVars>>

\* A caller reads the pending first frame (mod.rs:95 is the first such call).
FirstOp ==
  /\ cpc = "done"
  /\ Len(first_reads) < MaxFirstOp
  /\ first_reads' = Append(first_reads, first_op(inner))
  /\ UNCHANGED <<host, incoming, wire, avail, cpc, inner, captured, old_parts,
                 sock_out, accepted, yielded>>
  /\ UNCHANGED <<codecVars, connVars>>

NextInner ==
  \/ \E ok \in BOOLEAN, h \in BOOLEAN, frames \in SeqsUpTo(Verbs, MaxFrames) :
       ConnectTcp(ok, h, frames)
  \/ \E n \in 1..(MaxFrames * 3) : Arrive(n)
  \/ IntoFuture
  \/ \E ok \in BOOLEAN : Handshake(ok)
  \/ InnerPoll
  \/ \E item \in Verbs : InnerStartSend(item)
  \/ \E n \in 1..(MaxSend * 3) : InnerPollComplete(n)
  \/ FirstOp

(* ---------------------- resilient connection --------------------------- *)
\* The two faces of NatsConnection, each driven by its own caller:
\* impl Sink (start_send, poll_complete) and impl Stream (poll).
Ops == {"sink", "stream"}
KindsOf(t) == IF t = "sink" THEN {"send", "flush"} ELSE {"receive"}
Tasks == 1..MaxTasks
Items == {"PUB"}
NoItem == "-"
Free == <<"free", 0>>
OpOwner(t) == <<"op", t>>
TaskOwner(k) == <<"task", k>>

\* What the transport can answer to each operation.
Outcomes(kind) ==
  CASE kind = "send" -> {"Ready", "NotReady", "Disconnected", "Error"}
    [] kind = "flush" -> {"Ready", "NotReady", "Disconnected", "Error"}
    [] kind = "receive" -> {"Frame", "End", "NotReady", "Disconnected", "Error"}

\* The arm  Err(NatsError::ServerDisconnected(_))  of the three matches.
IsServerDisconnected_any_error(outcome) == outcome \in {"Disconnected", "Error"}

IsServerDisconnected(outcome) == outcome = "Disconnected"

\* A state check that lets Reconnecting through.
NotConnected_lax(read) == read \in {"Disconnected", "WouldBlock"}

\* match self.state.try_read() { Some(state) => *state != Connected, _ => true }
NotConnected(read) == read # "Connected"

\* The value line 82/89/94 (send) or 103/110/115/129/136/141 returns.
NotReadyResult(kind, item) ==
  [kind |-> "NotReady", item |-> IF kind = "send" THEN item ELSE NoItem]

\* A disconnection reported as the error it is.
DisconnectedResult_error(kind, item) == [kind |-> "Error", item |-> NoItem]

\* Lines 89, 110, 136: what the call returns after reco!.
DisconnectedResult(kind, item) == NotReadyResult(kind, item)

\* poll_res => poll_res: the transport's answer as the caller sees it.
PassThrough(kind, outcome, item) ==
  [kind |-> outcome,
   item |-> CASE kind = "send" /\ outcome = "NotReady" -> item
              [] kind = "receive" /\ outcome = "Frame" -> "MSG"
              [] OTHER -> NoItem]

\* NatsConnectionInner::{start_send, poll_complete, poll} on the transport in
\* the slot: what the call leaves queued on it.
InnerCall(tr, kind, outcome, item) ==
  CASE kind = "send" /\ outcome = "Ready" -> [tr EXCEPT !.queued = Append(@, item)]
    [] kind = "flush" /\ outcome = "Ready" -> [tr EXCEPT !.queued = <<>>]
    [] OTHER -> tr

IdleOp ==
  [pc |-> "idle", kind |-> "send", item |-> NoItem, obs |-> "-",
   acquired |-> FALSE, calls |-> 0, outcome |-> "-", writes |-> <<>>,
   spawns |-> 0, res |-> [kind |-> "-", item |-> NoItem]]

\* Entry of start_send / poll_complete / poll: the non-blocking state check
\* (lines 78-83, 99-104, 125-130).
Call(t, kind, item) ==
  /\ oper[t].pc \in {"idle", "done"}
  /\ kind \in KindsOf(t)
  /\ LET read == IF state_lock = Free THEN state ELSE "WouldBlock"
         o == [IdleOp EXCEPT !.kind = kind, !.item = item, !.obs = read] IN
       oper' = [oper EXCEPT ![t] =
                IF NotConnected(read)
                THEN [o EXCEPT !.pc = "done", !.res = NotReadyResult(kind, item)]
                ELSE [o EXCEPT !.pc = "acquire"]]
  /\ UNCHANGED <<state, state_lock, slot, slot_lock, task>>
  /\ UNCHANGED <<codecVars, innerVars>>

\* self.inner.try_write() (lines 85, 106, 132) and its else branch.
TryWrite(t) ==
  /\ oper[t].pc = "acquire"
  /\ IF slot_lock = Free
     THEN /\ slot_lock' = OpOwner(t)
          /\ oper' = [oper EXCEPT ![t].pc = "call", ![t].acquired = TRUE]
     ELSE /\ oper' = [oper EXCEPT ![t].pc = "done",
                              ![t].res = NotReadyResult(oper[t].kind, oper[t].item)]
          /\ UNCHANGED slot_lock
  /\ UNCHANGED <<state, state_lock, slot, task>>
  /\ UNCHANGED <<codecVars, innerVars>>

\* The delegated call and the match on its result (lines 86-92, 107-113,
\* 133-139); any other result is returned and the guard dropped.
Delegate(t, outcome) ==
  /\ oper[t].pc = "call"
  /\ outcome \in Outcomes(oper[t].kind)
  /\ outcome = "Ready" /\ oper[t].kind = "send" => Len(slot.queued) < MaxQueue
  /\ outcome = "Disconnected" => \E k \in Tasks : task[k].pc = "unborn"
  /\ slot' = InnerCall(slot, oper[t].kind, outcome, oper[t].item)
  /\ IF IsServerDisconnected(outcome)
     THEN /\ oper' = [oper EXCEPT ![t].pc = "reco_lock", ![t].calls = @ + 1,
                              ![t].outcome = outcome]
          /\ UNCHANGED slot_lock
     ELSE /\ oper' = [oper EXCEPT ![t].pc = "done", ![t].calls = @ + 1,
                              ![t].outcome = outcome,
                              ![t].res = PassThrough(oper[t].kind, outcome, oper[t].item)]
          /\ slot_lock' = Free
  /\ UNCHANGED <<state, state_lock, task>>
  /\ UNCHANGED <<codecVars, innerVars>>

\* reco!, line 13: $conn.state.write() is granted.
RecoLock(t) ==
  /\ oper[t].pc = "reco_lock"
  /\ state_lock = Free
  /\ state_lock' = OpOwner(t)
  /\ oper' = [oper EXCEPT ![t].pc = "reco_set"]
  /\ UNCHANGED <<state, slot, slot_lock, task>>
  /\ UNCHANGED <<codecVars, innerVars>>

\* The write guard of line 13 kept alive across the call of reconnect.
RecoSet_holding_guard(t) ==
  /\ oper[t].pc = "reco_set"
  /\ state' = "Disconnected"
  /\ oper' = [oper EXCEPT ![t].pc = "reconnect_lock", ![t].writes = Append(@, "Disconnected")]
  /\ UNCHANGED <<state_lock, slot, slot_lock, task>>
  /\ UNCHANGED <<codecVars, innerVars>>

\* reco!, line 13: the assignment of Disconnected, the guard is dropped.
RecoSet(t) ==
  /\ oper[t].pc = "reco_set"
  /\ state' = "Disconnected"
  /\ state_lock' = Free
  /\ oper' = [oper EXCEPT ![t].pc = "reconnect_lock", ![t].writes = Append(@, "Disconnected")]
  /\ UNCHANGED <<slot, slot_lock, task>>
  /\ UNCHANGED <<codecVars, innerVars>>

\* reconnect, line 55, run by the caller of reco!: self.state.write() is granted.
ReconnectLock(t) ==
  /\ oper[t].pc = "reconnect_lock"
  /\ state_lock = Free
  /\ state_lock' = OpOwner(t)
  /\ oper' = [oper EXCEPT ![t].pc = "reconnect_set"]
  /\ UNCHANGED <<state, slot, slot_lock, task>>
  /\ UNCHANGED <<codecVars, innerVars>>

\* reconnect, line 55: the assignment of Reconnecting.
ReconnectSet(t) ==
  /\ oper[t].pc = "reconnect_set"
  /\ state' = "Reconnecting"
  /\ state_lock' = Free
  /\ oper' = [oper EXCEPT ![t].pc = "spawn", ![t].writes = Append(@, "Reconnecting")]
  /\ UNCHANGED <<slot, slot_lock, task>>
  /\ UNCHANGED <<codecVars, innerVars>>

\* reco!, line 15: tokio_executor::spawn of the future reconnect returned.
Spawn(t) ==
  /\ oper[t].pc = "spawn"
  /\ \E k \in Tasks :
       /\ task[k].pc = "unborn"
       /\ \A j \in Tasks : j < k => task[j].pc # "unborn"
       /\ task' = [task EXCEPT ![k] = [pc |-> "connecting", from |-> slot.id]]
  /\ oper' = [oper EXCEPT ![t].pc = "ret", ![t].spawns = @ + 1]
  /\ UNCHANGED <<state, state_lock, slot, slot_lock>>
  /\ UNCHANGED <<codecVars, innerVars>>

\* Lines 89, 110, 136: the call returns and the slot guard is dropped.
Return(t) ==
  /\ oper[t].pc = "ret"
  /\ slot_lock' = Free
  /\ oper' = [oper EXCEPT ![t].pc = "done",
                      ![t].res = DisconnectedResult(oper[t].kind, oper[t].item)]
  /\ UNCHANGED <<state, state_lock, slot, task>>
  /\ UNCHANGED <<codecVars, innerVars>>

\* reconnect, line 61: connect_and_upgrade_if_required resolves.
Connect(k, ok) ==
  /\ task[k].pc = "connecting"
  /\ task' = [task EXCEPT ![k].pc = IF ok THEN "lock_inner" ELSE "failed"]
  /\ UNCHANGED <<state, state_lock, slot, slot_lock, oper>>
  /\ UNCHANGED <<codecVars, innerVars>>

\* reconnect, line 64: inner_arc.write() is granted.
SwapLock(k) ==
  /\ task[k].pc = "lock_inner"
  /\ slot_lock = Free
  /\ slot_lock' = TaskOwner(k)
  /\ task' = [task EXCEPT ![k].pc = "swap"]
  /\ UNCHANGED <<state, state_lock, slot, oper>>
  /\ UNCHANGED <<codecVars, innerVars>>

\* reconnect, line 64: the slot is assigned the new transport.
Swap(k) ==
  /\ task[k].pc = "swap"
  /\ slot' = [id |-> k, queued |-> <<>>]
  /\ slot_lock' = Free
  /\ task' = [task EXCEPT ![k].pc = "lock_state"]
  /\ UNCHANGED <<state, state_lock, oper>>
  /\ UNCHANGED <<codecVars, innerVars>>

\* reconnect, line 65: inner_state.write() is granted.
ConnectedLock(k) ==
  /\ task[k].pc = "lock_state"
  /\ state_lock = Free
  /\ state_lock' = TaskOwner(k)
  /\ task' = [task EXCEPT ![k].pc = "set"]
  /\ UNCHANGED <<state, slot, slot_lock, oper>>
  /\ UNCHANGED <<codecVars, innerVars>>

\* reconnect, line 65: the assignment of Connected.
ConnectedSet(k) ==
  /\ task[k].pc = "set"
  /\ state' = "Connected"
  /\ state_lock' = Free
  /\ task' = [task EXCEPT ![k].pc = "done"]
  /\ UNCHANGED <<slot, slot_lock, oper>>
  /\ UNCHANGED <<codecVars, innerVars>>
NextConn ==
  \/ \E t \in Ops, kind \in {"send", "flush", "receive"}, item \in Items : Call(t, kind, item)
  \/ \E t \in Ops : TryWrite(t)
  \/ \E t \in Ops, outcome \in {"Ready", "NotReady", "Disconnected", "Error", "Frame", "End"} :
       Delegate(t, outcome)
  \/ \E t \in Ops : RecoLock(t)
  \/ \E t \in Ops : RecoSet(t)
  \/ \E t \in Ops : ReconnectLock(t)
  \/ \E t \in Ops : ReconnectSet(t)
  \/ \E t \in Ops : Spawn(t)
  \/ \E t \in Ops : Return(t)
  \/ \E k \in Tasks, ok \in BOOLEAN : Connect(k, ok)
  \/ \E k \in Tasks : SwapLock(k)
  \/ \E k \in Tasks : Swap(k)
  \/ \E k \in Tasks : ConnectedLock(k)
  \/ \E k \in Tasks : ConnectedSet(k)

vars == <<codecVars, innerVars, connVars>>

\* A fresh codec (OpCodec::new), no connection attempt made yet, and a
\* connection as mod.rs:73-81 / 92-100 builds it: state Connected, the slot
\* holding the first transport, both cells unlocked.
Init ==
  /\ buf = <<>>
  /\ next_index = 0
  /\ hist = <<>>
  /\ host = FALSE
  /\ incoming = <<>>
  /\ wire = <<>>
  /\ avail = <<>>
  /\ cpc = "init"
  /\ inner = NoInner
  /\ captured = [op |-> None, framed |-> NoInner]
  /\ old_parts = into_parts(NoInner)
  /\ sock_out = <<>>
  /\ accepted = <<>>
  /\ yielded = <<>>
  /\ first_reads = <<>>
  /\ state = "Connected"
  /\ state_lock = Free
  /\ slot = [id |-> 0, queued |-> <<>>]
  /\ slot_lock = Free
  /\ oper = [t \in Ops |-> IdleOp]
  /\ task = [k \in Tasks |-> [pc |-> "unborn", from |-> 0]]

SpecCodec == Init /\ [][NextCodec]_vars

SpecInner == Init /\ [][NextInner]_vars

SpecConn == Init /\ [][NextConn]_vars

\* The rest of the operation caller t is in: its one next step.
OpStep(t) ==
  \/ TryWrite(t)
  \/ \E outcome \in Outcomes(oper[t].kind) : Delegate(t, outcome)
  \/ RecoLock(t)
  \/ RecoSet(t)
  \/ ReconnectLock(t)
  \/ ReconnectSet(t)
  \/ Spawn(t)
  \/ Return(t)

\* The next step of reconnection task k.
TaskStep(k) ==
  \/ \E ok \in BOOLEAN : Connect(k, ok)
  \/ SwapLock(k)
  \/ Swap(k)
  \/ ConnectedLock(k)
  \/ ConnectedSet(k)

\* A caller that entered an operation runs it to its return, and the
\* executor polls every spawned future; a task that waits for a guard which
\* is released again and again is eventually granted it (parking_lot hands
\* a contended lock over fairly).  Issuing a further call is up to the caller.
FairConn ==
  /\ \A t \in Ops : WF_vars(OpStep(t))
  /\ \A k \in Tasks : SF_vars(TaskStep(k))

FairSpecConn == SpecConn /\ FairConn

(* ----------------------- connection properties ------------------------- *)
Running(t) == oper[t].pc \notin {"idle", "done"}

\* C1: an operation whose state check did not read Connected (or could not
\* read the state without waiting) returns not-ready, handing the frame back
\* for send; it never takes the slot guard, calls nothing on the transport
\* and changes neither the state nor the slot.
C1_NotConnectedNoEffect ==
  /\ [](\A t \in Ops :
         (oper[t].pc # "idle" /\ oper[t].obs # "Connected") =>
           /\ oper[t].pc = "done"
           /\ oper[t].res.kind = "NotReady"
           /\ oper[t].res.item = (IF oper[t].kind = "send" THEN oper[t].item ELSE NoItem)
           /\ ~oper[t].acquired
           /\ oper[t].calls = 0
           /\ oper[t].writes = <<>>
           /\ oper[t].spawns = 0
           /\ slot_lock # OpOwner(t)
           /\ state_lock # OpOwner(t))
  /\ [][\A t \in Ops :
          (oper'[t] # oper[t] /\ oper'[t].obs # "Connected") =>
            /\ state' = state /\ state_lock' = state_lock
            /\ slot' = slot /\ slot_lock' = slot_lock
            /\ task' = task]_vars

\* Both refusals happened: one call found the state guarded by a writer,
\* another read Reconnecting.
C1_Witness ==
  /\ oper["sink"].pc = "done" /\ oper["sink"].obs = "WouldBlock"
  /\ oper["sink"].kind = "send"
  /\ oper["stream"].pc = "done" /\ oper["stream"].obs = "Reconnecting"

\* C2: a call whose delegated operation reported the disconnection writes
\* Disconnected to the state, schedules exactly one reconnection task and
\* returns not-ready, not an error; a send gets its frame back and the frame
\* was not queued on the transport.
C2_DisconnectionHandled ==
  /\ [](\A t \in Ops :
         (oper[t].pc = "done" /\ oper[t].outcome = "Disconnected") =>
           /\ oper[t].acquired
           /\ oper[t].res.kind = "NotReady"
           /\ oper[t].res.item = (IF oper[t].kind = "send" THEN oper[t].item ELSE NoItem)
           /\ Len(oper[t].writes) >= 1 /\ oper[t].writes[1] = "Disconnected"
           /\ oper[t].spawns = 1)
  /\ [][\A t \in Ops :
          /\ (oper[t].pc = "call" /\ oper'[t].outcome = "Disconnected") =>
               slot' = slot
          /\ (oper[t].outcome = "Disconnected" /\ Len(oper[t].writes) = 0
                /\ Len(oper'[t].writes) = 1) =>
               state' = "Disconnected"]_vars

\* A send that met the disconnection has returned.
C2_Witness ==
  /\ oper["sink"].pc = "done" /\ oper["sink"].kind = "send"
  /\ oper["sink"].outcome = "Disconnected"
  /\ oper["sink"].obs = "Connected"

\* C3: any other answer of the transport is returned as it is; the call
\* writes no state, leaves the transport in the slot in place and schedules
\* no reconnection task.
C3_OtherResultsPassThrough ==
  /\ [](\A t \in Ops :
         (oper[t].pc = "done" /\ oper[t].outcome \notin {"-", "Disconnected"}) =>
           /\ oper[t].res.kind = oper[t].outcome
           /\ oper[t].res.item =
                (CASE oper[t].kind = "send" /\ oper[t].outcome = "NotReady" -> oper[t].item
                   [] oper[t].kind = "receive" /\ oper[t].outcome = "Frame" -> "MSG"
                   [] OTHER -> NoItem)
           /\ oper[t].writes = <<>>
           /\ oper[t].spawns = 0)
  /\ [][\A t \in Ops :
          (oper[t].pc = "call" /\ oper'[t].outcome \notin {"-", "Disconnected"}) =>
            /\ oper'[t].pc = "done"
            /\ state' = state /\ state_lock' = state_lock
            /\ slot'.id = slot.id
            /\ task' = task]_vars

\* An error other than the disconnection and a back-pressured send were
\* both passed through.
C3_Witness ==
  /\ oper["stream"].pc = "done" /\ oper["stream"].outcome = "Error"
  /\ oper["sink"].pc = "done" /\ oper["sink"].kind = "send"
  /\ oper["sink"].outcome = "NotReady"

\* C4: an operation that finds the slot held by another returns not-ready
\* without waiting and without calling the transport, and every operation
\* that was started returns, in every interleaving with the other caller and
\* the reconnection tasks.
C4_ContentionTerminates ==
  /\ [](\A t \in Ops :
         /\ oper[t].pc = "acquire" => ENABLED TryWrite(t)
         /\ (oper[t].pc = "done" /\ oper[t].obs = "Connected" /\ ~oper[t].acquired) =>
              /\ oper[t].res.kind = "NotReady"
              /\ oper[t].calls = 0)
  /\ \A t \in Ops : Running(t) ~> oper[t].pc = "done"

\* One caller lost the race for the slot while the other was inside the
\* transport call.
C4_Witness ==
  /\ oper["stream"].pc = "done" /\ oper["stream"].obs = "Connected"
  /\ ~oper["stream"].acquired
  /\ oper["sink"].pc = "call"

\* C5: once a reconnection task has obtained its new transport, the state
\* eventually is Connected with the slot holding that transport.
C5_ReconnectRestores ==
  \A k \in Tasks :
    [](task[k].pc = "lock_inner" => <>(state = "Connected" /\ slot.id = k))

(* ----------------------- transport properties -------------------------- *)
\* C6: within one transport variant the frames yielded by successive receive
\* calls are the frames that arrived, each once and in arrival order, and the
\* bytes queued for the socket are the serializations of the frames accepted
\* by send, in acceptance order.
C6_FrameOrderPreserved ==
  cpc = "done" =>
    /\ IsPrefix(yielded, incoming)
    /\ sock_out \o inner.write_buf = Flatten(accepted)

\* C7: the encrypted transport built by a successful upgrade holds exactly
\* the read buffer and the write buffer the plaintext framed stream had when
\* it was taken apart, and its pending first frame is the frame read from
\* the plaintext stream.
C7_UpgradeKeepsBuffers ==
  [][(cpc = "handshake" /\ cpc' = "done") =>
       /\ inner'.kind = "Tls"
       /\ inner'.read_buf = captured.framed.read_buf
       /\ inner'.write_buf = captured.framed.write_buf
       /\ inner'.first_op = captured.op
       /\ captured.op.some]_vars

\* An upgrade completed while bytes beyond the greeting were already buffered.
C7_Witness ==
  /\ cpc = "done"
  /\ inner.kind = "Tls"
  /\ first_reads = <<>> /\ yielded = <<>> /\ accepted = <<>>
  /\ Len(inner.read_buf) > Len(into_bytes(inner.first_op.op))

\* C8: on an encrypted transport the first call of the accessor returns the
\* frame read during the upgrade and clears it, every later call returns
\* nothing; on a plaintext transport every call returns nothing.
C8_FirstOpExactlyOnce ==
  \A i \in DOMAIN first_reads :
    first_reads[i] =
      IF inner.kind = "Tls" /\ i = 1 THEN captured.op ELSE None

(* ------------------------- codec properties ---------------------------- *)
NoDelimiterFrom(b, c) == \A j \in (c + 1)..Len(b) : ~IsDelimiter(b[j])

\* The 1-based index of the first delimiter of b[c..] (0 when there is none).
FirstDelimiterFrom(b, c) ==
  IF NoDelimiterFrom(b, c) THEN 0
  ELSE Min({j \in (c + 1)..Len(b) : IsDelimiter(b[j])})

\* C9: whenever decode finds a delimiter, the span handed to the parser is
\* the buffer from its start up to, not including, the first delimiter of
\* buffer[cursor..], for every cursor value.
C9_SpanIsLeftOfDelimiter ==
  \A i \in DOMAIN hist :
    hist[i].parsed =>
      hist[i].span = SubSeq(buf, 1, FirstDelimiterFrom(buf, hist[i].pre) - 1)

\* C10: with no delimiter at or after the cursor, decode returns no-frame-yet
\* and sets the cursor to the buffer length without calling the parser; a
\* second call with no bytes appended returns the same, keeps the cursor and
\* looks at no byte before the cursor.
C10_NoDelimiterIdempotent ==
  \A i \in DOMAIN hist :
    NoDelimiterFrom(buf, hist[i].pre) =>
      /\ hist[i].result = NoFrame
      /\ hist[i].post = Len(buf)
      /\ ~hist[i].parsed
      /\ hist[i].scanned \cap (1..hist[i].pre) = {}
      /\ (i + 1) \in DOMAIN hist =>
           /\ hist[i + 1].pre = hist[i].post
           /\ hist[i + 1].result = hist[i].result
           /\ hist[i + 1].post = hist[i].post
           /\ ~hist[i + 1].parsed
           /\ hist[i + 1].scanned \cap (1..hist[i].post) = {}

\* Two decode calls on a buffer whose only delimiter lies before the cursor.
C10_Witness ==
  /\ Len(hist) = 2
  /\ hist[1].pre > 0
  /\ NoDelimiterFrom(buf, hist[1].pre)
  /\ ~NoDelimiterFrom(buf, 0)

\* C11: when the parser reports a structural error decode returns the error
\* and sets the cursor to 0, so the next decode call scans from the head of
\* the buffer it is given; when the parser reports incomplete decode returns
\* no-frame-yet with the cursor at the buffer length.
C11_ErrorResetsCursor ==
  /\ [](\A i \in DOMAIN hist :
         hist[i].parsed =>
           /\ from_bytes(hist[i].span).kind = "Malformed" =>
                /\ hist[i].result.kind = "Err"
                /\ hist[i].post = 0
                /\ i = Len(hist) => next_index = 0
                /\ (i + 1) \in DOMAIN hist =>
                     /\ hist[i + 1].pre = 0
                     /\ 1 \in hist[i + 1].scanned
           /\ from_bytes(hist[i].span).kind = "Incomplete" =>
                /\ hist[i].result = NoFrame
                /\ hist[i].post = Len(buf))
  /\ [][(hist # <<>> /\ hist[Len(hist)].result.kind = "Err" /\ hist' = <<>>) =>
          next_index' = 0]_vars

\* A structural error met with the cursor past the head of the buffer, and
\* the decode call that followed it.
C11_Witness ==
  /\ Len(hist) = 2
  /\ hist[1].pre > 0
  /\ hist[1].result.kind = "Err"

\* C17: decoding a buffer that was delivered in pieces, with decode calls on
\* the pieces in between, gives what a fresh codec gives on the whole buffer:
\* the same result and the same span handed to the parser.
C17_IncrementalEqualsOneShot ==
  \A i \in DOMAIN hist :
    i = 1 =>
      /\ hist[i].result = decode(0, buf).result
      /\ hist[i].parsed = decode(0, buf).parsed
      /\ hist[i].span = decode(0, buf).span

\* C18: the cursor stays within 0..buffer length, decreases only in a decode
\* call that returns a structural error (which sets it to 0), and a decode
\* call leaves it at the buffer length exactly when it returns no-frame-yet.
C18_CursorInvariant ==
  /\ [](next_index >= 0 /\ next_index <= Len(buf))
  /\ [](\A i \in DOMAIN hist :
         /\ hist[i].pre <= Len(buf)
         /\ (hist[i].result = NoFrame) <=> (hist[i].post = Len(buf))
         /\ hist[i].result.kind = "Err" => hist[i].post = 0
         /\ hist[i].result.kind = "Frame" => hist[i].post = hist[i].pre)
  /\ [][next_index' < next_index =>
          /\ hist' # <<>>
          /\ hist'[Len(hist')].result.kind = "Err"
          /\ next_index' = 0]_vars

\* The cursor had moved forward and fell back to 0 on an error.
C18_Witness ==
  /\ Len(hist) = 1
  /\ hist[1].pre > 0
  /\ hist[1].result.kind = "Err"
  /\ next_index = 0

\* C19: the upgrade either succeeds with an encrypted transport carrying the
\* captured first frame, or, when the handshake fails, leaves the original
\* plaintext transport with its buffers usable.
C19_UpgradeAtomic ==
  /\ (cpc = "done" /\ host) =>
       /\ inner.kind = "Tls"
       /\ inner.first_op = captured.op
  /\ (cpc = "failed" /\ captured.op.some) =>
       /\ inner.kind = "Tcp"
       /\ inner.read_buf = captured.framed.read_buf
       /\ inner.write_buf = captured.framed.write_buf

(* ------------------ connection properties, continued ------------------- *)
Spawned(k) == task[k].pc # "unborn"
InFlight(k) == task[k].pc \in {"connecting", "lock_inner", "swap", "lock_state", "set"}

\* C12: the state starts as Connected and every write of the state is one of
\* Connected to Disconnected, Disconnected to Reconnecting, Reconnecting to
\* Connected.
C12_OnlyThreeTransitions ==
  /\ state = "Connected"
  /\ [][/\ state' # state =>
             <<state, state'>> \in {<<"Connected", "Disconnected">>,
                                    <<"Disconnected", "Reconnecting">>,
                                    <<"Reconnecting", "Connected">>}
         /\ \A t \in Ops :
              Len(oper'[t].writes) = Len(oper[t].writes) + 1 => state' # state
         /\ \A k \in Tasks :
              (task[k].pc = "set" /\ task'[k].pc = "done") => state' # state]_vars

\* C13: once the disconnection of a transport has been handled (a task was
\* spawned for it), the state is never Connected while the slot still holds
\* that transport.
C13_SwapBeforeConnected ==
  state = "Connected" =>
    \A k \in Tasks : Spawned(k) => task[k].from # slot.id

\* The single reconnection attempt has failed.
SingleAttemptFailed ==
  /\ task[1].pc = "failed"
  /\ \A k \in Tasks : k # 1 => ~Spawned(k)

\* C14: once the single reconnection attempt has failed, no other task is
\* spawned, the state is never Connected again, the slot keeps its transport
\* and every operation that returns returns not-ready.
C14_FailedReconnectIsFinal ==
  [][SingleAttemptFailed =>
       /\ SingleAttemptFailed'
       /\ state' # "Connected"
       /\ slot'.id = slot.id
       /\ \A t \in Ops :
            (oper'[t].pc = "done" /\ oper'[t] # oper[t]) =>
              oper'[t].res.kind = "NotReady"]_vars

\* C15: no operation and no reconnection task is ever waiting for a guard
\* that another party holds.
C15_NoBlockingWait ==
  /\ \A t \in Ops :
       oper[t].pc \in {"reco_lock", "reconnect_lock"} => state_lock = Free
  /\ \A k \in Tasks :
       /\ task[k].pc = "lock_inner" => slot_lock = Free
       /\ task[k].pc = "lock_state" => state_lock = Free

\* C16: at most one reconnection task is in flight at any time, and a task
\* only ever replaces the transport whose disconnection launched it.
C16_SingleReconnectTask ==
  /\ [](Cardinality({k \in Tasks : InFlight(k)}) <= 1)
  /\ [][\A k \in Tasks :
          (task[k].pc = "swap" /\ task'[k].pc = "lock_state") =>
            slot.id = task[k].from]_vars

\* C20: a public operation calls the transport only while the state is
\* Connected, and no two operations meet the disconnection of the same
\* transport.
C20_DelegateOnlyWhenConnected ==
  /\ [][\A t \in Ops :
          oper'[t].calls = oper[t].calls + 1 => state = "Connected"]_vars
  /\ [](\A j, k \in Tasks :
         (j # k /\ Spawned(j) /\ Spawned(k)) => task[j].from # task[k].from)
====
